---- MODULE Spec2Model ----
(***************************************************************************)
(* Model of the sol-memebot decision engine and its simulation loop:       *)
(*   strategy_config.rs  StrategyConfig and its presets                    *)
(*   strategy.rs         compute_score, passes_basic_filters, decide,      *)
(*                       should_exit                                       *)
(*   scanner.rs          From<PumpFunListing> for TokenEvent               *)
(*   simulator.rs        run_simulation (ingest loop, decide loop, ledger) *)
(*                                                                         *)
(* Numbers.  The program computes in f64.  The model keeps every quantity  *)
(* as an integer in a fixed unit:                                          *)
(*   scores                 hundredths of a point  (75.0 -> 7500)          *)
(*   percentages            whole percent          (0.2  -> 20)            *)
(*   market cap, liquidity  whole USD                                      *)
(*   SOL amounts            milli-SOL              (0.5  -> 500)           *)
(*   USD amounts of trades  milli-USD                                      *)
(*   slippage (impact)      hundredths             (1.04 -> 104)           *)
(*   exit multipliers       tenths                 (1.3  -> 13)            *)
(***************************************************************************)
EXTENDS Integers, Sequences, FiniteSets, TLC

Min(a, b) == IF a <= b THEN a ELSE b
Max(a, b) == IF a >= b THEN a ELSE b

(***************************************************************************)
(* strategy_config.rs                                                      *)
(***************************************************************************)
DefaultConfig ==
  [ min_market_cap_usd |-> 5000,
    max_market_cap_usd |-> 300000,
    min_holders |-> 10,
    max_dev_hold_pct |-> 15,
    min_liquidity_usd |-> 1000,
    reject_upgradeable |-> TRUE,
    reject_freeze_authority |-> TRUE,
    min_score_to_buy |-> 7500,
    require_momentum_or_graduation |-> TRUE,
    low_dev_hold_bonus |-> 1000,
    high_dev_hold_penalty_multiplier |-> 4,
    liquidity_bonus_divisor |-> 1000,
    market_cap_sweet_spot_bonus |-> 1500,
    momentum_bonus |-> 2000,
    graduation_bonus |-> 2500,
    upgradeable_penalty |-> 2000,
    freeze_authority_penalty |-> 1500,
    stop_loss_pct |-> 20,
    min_profit_target_pct |-> 50,
    max_profit_target_pct |-> 100,
    lp_spike_exit_multiplier |-> 2,
    max_positions |-> 5,
    max_sol_per_trade |-> 500,
    starting_sol_balance |-> 3000,
    sol_usd_price |-> 30 ]

EarlySnipeConfig ==
  [ DefaultConfig EXCEPT !.min_market_cap_usd = 1000,
                         !.min_holders = 5,
                         !.min_liquidity_usd = 500,
                         !.min_score_to_buy = 6500 ]

ConservativeConfig ==
  [ DefaultConfig EXCEPT !.min_market_cap_usd = 50000,
                         !.min_holders = 200,
                         !.max_dev_hold_pct = 10,
                         !.min_liquidity_usd = 5000,
                         !.min_score_to_buy = 8000 ]

AggressiveConfig ==
  [ DefaultConfig EXCEPT !.min_market_cap_usd = 2000,
                         !.min_holders = 3,
                         !.max_dev_hold_pct = 20,
                         !.min_liquidity_usd = 300,
                         !.min_score_to_buy = 6000,
                         !.max_positions = 10 ]

Presets == { DefaultConfig, EarlySnipeConfig, ConservativeConfig, AggressiveConfig }

\* StrategyConfig is a plain struct with public fields: besides the presets a
\* caller can build any value.  One such value, with the two reject switches
\* and the momentum requirement off and a profit band that starts below zero.
PermissiveConfig ==
  [ DefaultConfig EXCEPT !.reject_upgradeable = FALSE,
                         !.reject_freeze_authority = FALSE,
                         !.require_momentum_or_graduation = FALSE,
                         !.min_score_to_buy = 4000,
                         !.min_profit_target_pct = -50 ]

\* Another such value: the profit band is empty (min 150% above max 100%).
EmptyBandConfig ==
  [ DefaultConfig EXCEPT !.min_profit_target_pct = 150 ]

Configs == Presets \cup { PermissiveConfig, EmptyBandConfig }

(***************************************************************************)
(* strategy.rs : TokenEvent::compute_score                                 *)
(***************************************************************************)
HolderTerm(ev, config) ==
  IF ev.holders >= config.min_holders
    THEN Min((ev.holders - config.min_holders) * 2, 3000)
    ELSE 0 - (config.min_holders - ev.holders) * 10

\* mutant: the bonus for a dev hold under 5% is missing
DevHoldTerm_nobonus(ev, config) ==
  IF ev.dev_hold_pct > config.max_dev_hold_pct THEN 0 - 10000
  ELSE IF ev.dev_hold_pct > 10
    THEN 0 - (ev.dev_hold_pct - 10) * config.high_dev_hold_penalty_multiplier * 100
  ELSE 0

DevHoldTerm(ev, config) ==
  IF ev.dev_hold_pct > config.max_dev_hold_pct THEN 0 - 10000
  ELSE IF ev.dev_hold_pct > 10
    THEN 0 - (ev.dev_hold_pct - 10) * config.high_dev_hold_penalty_multiplier * 100
  ELSE IF ev.dev_hold_pct < 5 THEN config.low_dev_hold_bonus
  ELSE 0

LiquidityTerm(ev, config) ==
  Min((ev.liquidity_usd * 100) \div config.liquidity_bonus_divisor, 2500)

MarketCapTerm(ev, config) ==
  IF ev.market_cap_usd >= 50000 /\ ev.market_cap_usd <= 250000
    THEN config.market_cap_sweet_spot_bonus
  ELSE IF ev.market_cap_usd > 250000 /\ ev.market_cap_usd <= config.max_market_cap_usd
    THEN 500
  ELSE 0

SafetyTerm(ev, config) ==
  (IF ev.upgradeable THEN 0 - config.upgradeable_penalty ELSE 0)
  + (IF ev.freeze_authority THEN 0 - config.freeze_authority_penalty ELSE 0)

SignalTerm(ev, config) ==
  (IF ev.momentum THEN config.momentum_bonus ELSE 0)
  + (IF ev.graduation THEN config.graduation_bonus ELSE 0)

RawScore(ev, config) ==
  5000 + HolderTerm(ev, config) + DevHoldTerm(ev, config) + LiquidityTerm(ev, config)
       + MarketCapTerm(ev, config) + SafetyTerm(ev, config) + SignalTerm(ev, config)

\* mutant: the final clamp is missing
compute_score_noclamp(ev, config) ==
  IF ev.is_dev_known_rugger THEN 0 ELSE RawScore(ev, config)

\* mutant: the known-rugger early return is missing
compute_score_norugger(ev, config) ==
  Min(Max(RawScore(ev, config), 0), 10000)

compute_score(ev, config) ==
  IF ev.is_dev_known_rugger THEN 0
  ELSE Min(Max(RawScore(ev, config), 0), 10000)

(***************************************************************************)
(* strategy.rs : TokenEvent::passes_basic_filters                          *)
(***************************************************************************)
\* mutant: the dev-hold filter uses > where the code uses >=
passes_basic_filters_gt(ev, config) ==
  IF ev.is_dev_known_rugger THEN FALSE
  ELSE IF ev.market_cap_usd < config.min_market_cap_usd
          \/ ev.market_cap_usd > config.max_market_cap_usd THEN FALSE
  ELSE IF ev.holders < config.min_holders THEN FALSE
  ELSE IF ev.dev_hold_pct > config.max_dev_hold_pct THEN FALSE
  ELSE IF config.reject_upgradeable /\ ev.upgradeable THEN FALSE
  ELSE IF config.reject_freeze_authority /\ ev.freeze_authority THEN FALSE
  ELSE TRUE

passes_basic_filters(ev, config) ==
  IF ev.is_dev_known_rugger THEN FALSE
  ELSE IF ev.market_cap_usd < config.min_market_cap_usd
          \/ ev.market_cap_usd > config.max_market_cap_usd THEN FALSE
  ELSE IF ev.holders < config.min_holders THEN FALSE
  ELSE IF ev.dev_hold_pct >= config.max_dev_hold_pct THEN FALSE
  ELSE IF config.reject_upgradeable /\ ev.upgradeable THEN FALSE
  ELSE IF config.reject_freeze_authority /\ ev.freeze_authority THEN FALSE
  ELSE TRUE

(***************************************************************************)
(* strategy.rs : decide                                                    *)
(***************************************************************************)
\* mutant: the momentum-or-graduation requirement is dropped
decide_nosignal(event, config) ==
  LET score == compute_score(event, config)
      basic == passes_basic_filters(event, config)
  IN [ should_buy |-> basic /\ score >= config.min_score_to_buy,
       score |-> score ]

decide(event, config) ==
  LET score == compute_score(event, config)
      basic == passes_basic_filters(event, config)
  IN [ should_buy |-> basic
                      /\ score >= config.min_score_to_buy
                      /\ (~config.require_momentum_or_graduation
                          \/ event.momentum \/ event.graduation),
       score |-> score ]

(***************************************************************************)
(* strategy.rs : should_exit                                               *)
(***************************************************************************)
\* market_cap_usd < entry_market_cap * (1.0 - stop_loss_pct)
StopLossHit(event, config) ==
  event.market_cap_usd * 100 < event.entry_market_cap * (100 - config.stop_loss_pct)

\* profit_pct = (market_cap_usd - entry_market_cap) / entry_market_cap lies in
\* [min_profit_target_pct, max_profit_target_pct].  A zero entry_market_cap
\* makes the f64 quotient NaN or an infinity, and no such value is in the band.
ProfitTargetHit(event, config) ==
  LET d == event.market_cap_usd - event.entry_market_cap
      e == event.entry_market_cap
  IN IF e > 0
       THEN d * 100 >= config.min_profit_target_pct * e
            /\ d * 100 <= config.max_profit_target_pct * e
     ELSE IF e < 0
       THEN d * 100 <= config.min_profit_target_pct * e
            /\ d * 100 >= config.max_profit_target_pct * e
     ELSE FALSE

LpSpikeHit(event, entry_liquidity, config) ==
  event.raydium_lp_detected
  \/ (entry_liquidity > 0
      /\ event.liquidity_usd > entry_liquidity * config.lp_spike_exit_multiplier)

\* mutant: the profit target is tested before the stop loss
should_exit_swapped(event, entry_liquidity, config) ==
  IF ProfitTargetHit(event, config)
    THEN [ should_exit |-> TRUE, reason |-> "profit_target" ]
  ELSE IF StopLossHit(event, config)
    THEN [ should_exit |-> TRUE, reason |-> "stop_loss" ]
  ELSE IF LpSpikeHit(event, entry_liquidity, config)
    THEN [ should_exit |-> TRUE, reason |-> "lp_spike" ]
  ELSE IF event.graduation
    THEN [ should_exit |-> TRUE, reason |-> "graduation" ]
  ELSE [ should_exit |-> FALSE, reason |-> "" ]

should_exit(event, entry_liquidity, config) ==
  IF StopLossHit(event, config)
    THEN [ should_exit |-> TRUE, reason |-> "stop_loss" ]
  ELSE IF ProfitTargetHit(event, config)
    THEN [ should_exit |-> TRUE, reason |-> "profit_target" ]
  ELSE IF LpSpikeHit(event, entry_liquidity, config)
    THEN [ should_exit |-> TRUE, reason |-> "lp_spike" ]
  ELSE IF event.graduation
    THEN [ should_exit |-> TRUE, reason |-> "graduation" ]
  ELSE [ should_exit |-> FALSE, reason |-> "" ]

(***************************************************************************)
(* State of one run of run_simulation, and the inputs of the strategy      *)
(* functions when they are exercised on their own.                         *)
(***************************************************************************)
VARIABLES
  phase,         \* "Ingesting", "Deciding", "Finalizing", "Done" (Ok(())), "Aborted" (Err by ?)
  pc,            \* position inside the phase
  time_left,     \* deadline - Instant::now(), saturating at 0, in ticks
  listings,      \* rest of the batch the current poll iterates over
  collected,     \* Vec<TokenEvent> buffer
  sol_balance,   \* portfolio.sol_balance, milli-SOL
  positions,     \* portfolio.positions
  ev_idx,        \* index in collected of the event being decided
  scan_idx,      \* index in positions of the exit scan
  closed_idxs,   \* indices collected by the exit scan
  token_events,  \* ledger table token_events (rows keyed by id)
  trades,        \* ledger table trades
  run_metadata,  \* ledger table run_metadata (number of rows)
  ledger_error,  \* a ledger write has returned Err
  fn_ev,         \* strategy functions on their own: the event
  fn_config,     \*   the configuration
  fn_entry_liquidity, \* the entry liquidity handed to should_exit
  fn_out         \*   the last call and what it returned

sim_vars == << phase, pc, time_left, listings, collected, sol_balance, positions,
               ev_idx, scan_idx, closed_idxs, token_events, trades, run_metadata,
               ledger_error >>
fn_vars == << fn_ev, fn_config, fn_entry_liquidity, fn_out >>
vars == << phase, pc, time_left, listings, collected, sol_balance, positions,
           ev_idx, scan_idx, closed_idxs, token_events, trades, run_metadata,
           ledger_error, fn_ev, fn_config, fn_entry_liquidity, fn_out >>

(***************************************************************************)
(* Bounds of the model                                                     *)
(***************************************************************************)
MaxTicks == 3       \* longest ingestion window, in ticks (one tick: the 5 s sleep)
MaxBatch == 2       \* most listings one poll returns
MaxCollected == 6   \* most events buffered in one run

(***************************************************************************)
(* Literals of run_simulation                                              *)
(***************************************************************************)
StartingSolBalance == 3000   \* Portfolio::new(3.0)
SolUsdPrice == 30            \* let sol_usd_price = 30.0
MaxPerTradeSol == 500        \* let max_per_trade_sol = 0.5
MinTradeFloor == 10          \* portfolio.sol_balance > 0.01
MaxOpenPositions == 5        \* portfolio.positions.len() < 5
LpSpikeFactor == 2           \* current_liquidity > entry_liquidity * 2.0
MomentumLiquidity == 1000    \* ev.liquidity_usd > 1000.0
GraduationMinCap == 50000    \* ev.market_cap_usd >= 50000.0
GraduationMaxCap == 300000   \* ev.market_cap_usd <= 300000.0

\* The configuration the strategy functions get during a run.  run_simulation
\* calls them without naming one and main.rs selects none, so it is whatever
\* the run was started with (fn_config, fixed for the run).  The literals of
\* run_simulation above stay what they are under every configuration.
ConfigInUse == fn_config

(***************************************************************************)
(* scanner.rs : From<PumpFunListing> for TokenEvent                        *)
(***************************************************************************)
Absent == [ some |-> FALSE, val |-> 0 ]
Some(v) == [ some |-> TRUE, val |-> v ]

\* parse_opt_f64: a missing or unparseable string is 0.0
parse_opt_f64(s) == IF s.some THEN s.val ELSE 0

TokenEventFrom(p) ==
  LET market_cap == parse_opt_f64(p.fully_diluted_valuation)
  IN [ id |-> p.token_address,
       market_cap_usd |-> market_cap,
       dev_hold_pct |-> 0,
       liquidity_usd |-> parse_opt_f64(p.liquidity),
       holders |-> 0,
       upgradeable |-> FALSE,
       freeze_authority |-> FALSE,
       momentum |-> FALSE,
       graduation |-> FALSE,
       base_price |-> parse_opt_f64(p.price_usd),
       is_dev_known_rugger |-> FALSE,
       entry_market_cap |-> market_cap,
       raydium_lp_detected |-> FALSE ]

(***************************************************************************)
(* What the data source can answer                                         *)
(***************************************************************************)
TokenIds == { "t1", "t2" }

\* Raw listings (PumpFunListing).  t1 is a small-cap token listed with a price
\* and no liquidity figure; t2 sits in the graduation band and comes without
\* a price.
Listings ==
  { [ token_address |-> "t1", fully_diluted_valuation |-> Some(20000),
      price_usd |-> Some(2), liquidity |-> Absent ],
    [ token_address |-> "t2", fully_diluted_valuation |-> Some(100000),
      price_usd |-> Absent, liquidity |-> Absent ] }

RECURSIVE SeqsUpTo(_, _)
SeqsUpTo(S, n) ==
  IF n = 0 THEN { << >> }
  ELSE LET shorter == SeqsUpTo(S, n - 1)
       IN shorter \cup { Append(q, x) : q \in { r \in shorter : Len(r) = n - 1 }, x \in S }

\* the batches a poll can return while the buffer has room
Batches(room) == SeqsUpTo(Listings, Min(MaxBatch, room))

\* fetch_pumpfun_listings().await: Err(_) or Ok(batch)
FetchErr == [ ok |-> FALSE, batch |-> << >> ]
FetchResults(room) == { FetchErr } \cup { [ ok |-> TRUE, batch |-> b ] : b \in Batches(room) }

\* Result::unwrap_or_default: an Err is the empty batch
unwrap_or_default(r) == IF r.ok THEN r.batch ELSE << >>

\* mutant: the Err of a fetch or lookup is propagated as by `?`
AfterLookup_try(ok, ph) == IF ok THEN ph ELSE "Aborted"

\* Where the run stands after a fetch or an enrichment lookup returned:
\* unwrap_or_default and `if let Ok(Some(..))` drop the Err: the run stays
\* in its phase whatever the call answered.
AfterLookup(ok, ph) == ph

\* Answers of the three enrichment calls.  ok = FALSE stands for Err(_) and
\* for Ok(None) alike: `if let Ok(Some(..))` treats them the same.
Failed == [ ok |-> FALSE, val |-> 0, price |-> Absent ]
HolderAnswers == { Failed, [ ok |-> TRUE, val |-> 250, price |-> Absent ] }
TopHolderAnswers == { Failed, [ ok |-> TRUE, val |-> 3, price |-> Absent ] }
PairAnswers == { Failed, [ ok |-> TRUE, val |-> 2000, price |-> Absent ] }

\* The answers one listing gets.  The three calls fail independently in the
\* program; the model takes the case where all fail and the case where all
\* succeed.
EnrichAnswers ==
  { a \in [ holder_stats : HolderAnswers, top_holders : TopHolderAnswers,
            pair : PairAnswers ] :
      a.holder_stats.ok = a.top_holders.ok /\ a.top_holders.ok = a.pair.ok }

(***************************************************************************)
(* simulator.rs 53-89 : one listing becomes one buffered TokenEvent        *)
(***************************************************************************)
Enrich(l, a) ==
  LET ev0 == TokenEventFrom(l)
      ev1 == IF a.holder_stats.ok
               THEN [ ev0 EXCEPT !.holders = a.holder_stats.val ] ELSE ev0
      ev2 == IF a.top_holders.ok
               THEN [ ev1 EXCEPT !.dev_hold_pct = a.top_holders.val ] ELSE ev1
      ev3 == IF a.pair.ok
               THEN [ ev2 EXCEPT !.liquidity_usd = a.pair.val,
                                 !.base_price = IF ev2.base_price <= 0
                                                  THEN parse_opt_f64(a.pair.price)
                                                  ELSE ev2.base_price ]
               ELSE ev2
  IN [ ev3 EXCEPT !.momentum = ev3.liquidity_usd > MomentumLiquidity,
                  !.graduation = ev3.market_cap_usd >= GraduationMinCap
                                 /\ ev3.market_cap_usd <= GraduationMaxCap
                                 /\ ev3.liquidity_usd > MomentumLiquidity ]

\* An await takes some time: none that matters, or one tick.
Elapse(t) == { t, Max(t - 1, 0) }

(***************************************************************************)
(* simulator.rs 42-93 : Ingesting                                          *)
(***************************************************************************)
SimFrame == UNCHANGED fn_vars
LedgerFrame == UNCHANGED << token_events, trades, run_metadata, ledger_error >>
PortfolioFrame == UNCHANGED << sol_balance, positions >>
DecideFrame == UNCHANGED << ev_idx, scan_idx, closed_idxs >>

\* mutant: the loop polls without looking at the deadline
Poll_nodeadline ==
  /\ phase = "Ingesting" /\ pc = "poll"
  /\ \E r \in FetchResults(MaxCollected - Len(collected)), t \in Elapse(time_left) :
       /\ listings' = unwrap_or_default(r)
       /\ time_left' = t
       /\ phase' = AfterLookup(r.ok, phase)
  /\ pc' = "listing"
  /\ UNCHANGED collected
  /\ PortfolioFrame /\ DecideFrame /\ LedgerFrame /\ SimFrame

\* while Instant::now() < deadline { let listings = fetch().await.unwrap_or_default();
Poll ==
  /\ phase = "Ingesting" /\ pc = "poll" /\ time_left > 0
  /\ \E r \in FetchResults(MaxCollected - Len(collected)), t \in Elapse(time_left) :
       /\ listings' = unwrap_or_default(r)
       /\ time_left' = t
       /\ phase' = AfterLookup(r.ok, phase)
  /\ pc' = "listing"
  /\ UNCHANGED collected
  /\ PortfolioFrame /\ DecideFrame /\ LedgerFrame /\ SimFrame

\* for l in listings { if now >= deadline { break; } ... collected.push(ev); }
IngestListing ==
  /\ phase = "Ingesting" /\ pc = "listing" /\ listings # << >>
  /\ IF time_left = 0
       THEN /\ listings' = << >>
            /\ pc' = "sleep"
            /\ UNCHANGED << phase, collected, time_left >>
       ELSE /\ \E a \in EnrichAnswers, t \in Elapse(time_left) :
                 /\ collected' = Append(collected, Enrich(Head(listings), a))
                 /\ time_left' = t
                 /\ phase' = AfterLookup(a.holder_stats.ok /\ a.top_holders.ok
                                           /\ a.pair.ok, phase)
            /\ listings' = Tail(listings)
            /\ pc' = IF Tail(listings) = << >> THEN "sleep" ELSE "listing"
  /\ PortfolioFrame /\ DecideFrame /\ LedgerFrame /\ SimFrame

\* an empty batch: the for loop has nothing to do
EmptyBatch ==
  /\ phase = "Ingesting" /\ pc = "listing" /\ listings = << >>
  /\ pc' = "sleep"
  /\ UNCHANGED << phase, time_left, listings, collected >>
  /\ PortfolioFrame /\ DecideFrame /\ LedgerFrame /\ SimFrame

\* tokio::time::sleep(5 s).await
Sleep ==
  /\ phase = "Ingesting" /\ pc = "sleep"
  /\ time_left' = Max(time_left - 1, 0)
  /\ pc' = "poll"
  /\ UNCHANGED << phase, listings, collected >>
  /\ PortfolioFrame /\ DecideFrame /\ LedgerFrame /\ SimFrame

\* the while condition fails: portfolio setup, then the decide loop.  With
\* nothing collected the for loop is skipped.
EndIngest ==
  /\ phase = "Ingesting" /\ pc = "poll" /\ time_left = 0
  /\ sol_balance' = StartingSolBalance
  /\ positions' = << >>
  /\ IF collected = << >>
       THEN phase' = "Finalizing" /\ pc' = "marker"
       ELSE phase' = "Deciding" /\ pc' = "upsert"
  /\ ev_idx' = 1
  /\ UNCHANGED << time_left, listings, collected, scan_idx, closed_idxs >>
  /\ LedgerFrame /\ SimFrame

(***************************************************************************)
(* The ledger (the three tables run_simulation writes)                     *)
(***************************************************************************)
NoRow == [ present |-> FALSE, score |-> 0, liquidity_usd |-> 0, holders |-> 0 ]

\* mutant: ON CONFLICT (id) DO UPDATE
upsert_observation_overwrite(table, ev, score) ==
  [ table EXCEPT ![ev.id] = [ present |-> TRUE, score |-> score,
                              liquidity_usd |-> ev.liquidity_usd,
                              holders |-> ev.holders ] ]

\* INSERT INTO token_events ... ON CONFLICT (id) DO NOTHING
upsert_observation(table, ev, score) ==
  IF table[ev.id].present THEN table
  ELSE [ table EXCEPT ![ev.id] = [ present |-> TRUE, score |-> score,
                                   liquidity_usd |-> ev.liquidity_usd,
                                   holders |-> ev.holders ] ]

\* INSERT INTO trades (token_id, action, entry_price, qty, usd_in, opened_at, score)
append_trade_open(table, pos) ==
  Append(table, [ token_id |-> pos.token_id, action |-> "BUY",
                  entry_price |-> pos.entry_price, qty |-> pos.qty,
                  usd_in |-> pos.usd_in, score |-> pos.score,
                  exit_null |-> TRUE, exit_price |-> 0, pnl |-> 0 ])

\* the rows the UPDATE's WHERE clause selects
OpenBuys(table, token_id) ==
  { i \in 1..Len(table) : /\ table[i].token_id = token_id
                          /\ table[i].action = "BUY"
                          /\ table[i].exit_null }

\* UPDATE trades SET action='SELL', exit_price, pnl, closed_at
\*   WHERE token_id=$4 AND action='BUY' AND exit_price IS NULL
update_trade_close(table, token_id, exit_price, pnl) ==
  [ i \in 1..Len(table) |->
      IF i \in OpenBuys(table, token_id)
        THEN [ table[i] EXCEPT !.action = "SELL", !.exit_null = FALSE,
                               !.exit_price = exit_price, !.pnl = pnl ]
        ELSE table[i] ]

\* A write either succeeds or returns an error that `?` propagates.
WriteOutcomes == { "ok", "err" }

(***************************************************************************)
(* simulator.rs 100-153 : persist the event, then the entry decision       *)
(***************************************************************************)
\* mutant: the buffer is consumed from its end
Ev_reversed == collected[Len(collected) + 1 - ev_idx]

\* for ev in collected.iter(): the event of the current Deciding step
Ev == collected[ev_idx]

\* mutant: the error ends the loop and the run goes on to its completion
Abort_break ==
  /\ ledger_error' = TRUE
  /\ phase' = "Finalizing"
  /\ pc' = "marker"

\* `.await?` on a ledger write: the Err leaves run_simulation at once
Abort ==
  /\ ledger_error' = TRUE
  /\ phase' = "Aborted"
  /\ pc' = "err"

Upsert ==
  /\ phase = "Deciding" /\ pc = "upsert"
  /\ \E w \in WriteOutcomes :
       IF w = "ok"
         THEN /\ token_events' = upsert_observation(token_events, Ev,
                                                    compute_score(Ev, ConfigInUse))
              /\ pc' = "entry"
              /\ UNCHANGED << phase, ledger_error >>
         ELSE /\ Abort
              /\ UNCHANGED token_events
  /\ UNCHANGED << time_left, listings, collected, trades, run_metadata >>
  /\ PortfolioFrame /\ DecideFrame /\ SimFrame

\* 1.0 + rng.gen_range(0.0..0.05): the slippage, in hundredths.  The draw
\* scales entry_price and nothing else: no decision reads it and it cancels
\* in the proceeds, so the model takes one value of the range.
Impacts == { 104 }

\* a quantity is the exact quotient num / den
Qty(usd_in, entry_price) ==
  IF entry_price > 0 THEN [ num |-> usd_in, den |-> entry_price ]
  ELSE [ num |-> 0, den |-> 1 ]

\* mutant: usd_in is that of a full trade size, whatever is spent
NewPosition_fullsize(e, balance, impact, score) ==
  LET entry_price == e.base_price * impact
      usd_in == MaxPerTradeSol * SolUsdPrice
  IN [ token_id |-> e.id, entry_price |-> entry_price,
       qty |-> Qty(usd_in, entry_price), usd_in |-> usd_in, score |-> score ]

NewPosition(e, balance, impact, score) ==
  LET to_spend_sol == Min(MaxPerTradeSol, balance)
      entry_price == e.base_price * impact
      usd_in == to_spend_sol * SolUsdPrice
  IN [ token_id |-> e.id, entry_price |-> entry_price,
       qty |-> Qty(usd_in, entry_price), usd_in |-> usd_in, score |-> score ]

\* mutant: the cap on open positions is not enforced
MayOpen_nocap(should_buy, balance, open) ==
  should_buy /\ balance > MinTradeFloor

\* decision.should_buy && portfolio.sol_balance > 0.01 && portfolio.positions.len() < 5
MayOpen(should_buy, balance, open) ==
  should_buy /\ balance > MinTradeFloor /\ open < MaxOpenPositions

Entry ==
  /\ phase = "Deciding" /\ pc = "entry"
  /\ LET decision == decide(Ev, ConfigInUse)
     IN IF MayOpen(decision.should_buy, sol_balance, Len(positions))
          THEN \E impact \in Impacts, w \in WriteOutcomes :
                 LET pos == NewPosition(Ev, sol_balance, impact, decision.score)
                 IN /\ sol_balance' = sol_balance - Min(MaxPerTradeSol, sol_balance)
                    /\ positions' = Append(positions, pos)
                    /\ IF w = "ok"
                         THEN /\ trades' = append_trade_open(trades, pos)
                              /\ pc' = "scan"
                              /\ UNCHANGED << phase, ledger_error >>
                         ELSE /\ Abort
                              /\ UNCHANGED trades
          ELSE /\ pc' = "scan"
               /\ UNCHANGED << phase, sol_balance, positions, trades, ledger_error >>
  /\ scan_idx' = 1
  /\ closed_idxs' = << >>
  /\ UNCHANGED << time_left, listings, collected, ev_idx, token_events, run_metadata >>
  /\ SimFrame

(***************************************************************************)
(* simulator.rs 155-218 : the exit scan and the removals                   *)
(***************************************************************************)
\* query_dexscreener_pair(&pos.token_id) during the scan: Err/None/no pair,
\* or a first pair with this liquidity
ScanPairAnswers ==
  { Failed, [ ok |-> TRUE, val |-> 3000, price |-> Absent ],
            [ ok |-> TRUE, val |-> 5000, price |-> Absent ] }

\* let entry_liquidity = ev.liquidity_usd: the liquidity of the event being
\* decided (a Position stores neither a liquidity nor a market cap)
EntryLiquidity(e, pos) == e.liquidity_usd

\* mutant: the figure of the lookup is also taken as the current market cap
CurrentEv_mcap(e, pos, a) ==
  LET renamed == [ e EXCEPT !.id = pos.token_id ]
      entry_liquidity == EntryLiquidity(e, pos)
  IN IF a.ok
       THEN [ renamed EXCEPT !.liquidity_usd = a.val, !.market_cap_usd = a.val,
                             !.raydium_lp_detected =
                                 IF a.val > entry_liquidity * LpSpikeFactor
                                   THEN TRUE ELSE e.raydium_lp_detected ]
       ELSE renamed

\* current_ev: a clone of the event being decided, renamed to the position's
\* token, with the liquidity the lookup returned
CurrentEv(e, pos, a) ==
  LET renamed == [ e EXCEPT !.id = pos.token_id ]
      entry_liquidity == EntryLiquidity(e, pos)
  IN IF a.ok
       THEN [ renamed EXCEPT !.liquidity_usd = a.val,
                             !.raydium_lp_detected =
                                 IF a.val > entry_liquidity * LpSpikeFactor
                                   THEN TRUE ELSE e.raydium_lp_detected ]
       ELSE renamed

\* rng.gen_range(lo..hi) per exit reason, in tenths: the two ends of each
\* range (the low end alone for lp_spike, whose high end is that of graduation)
Multipliers(reason) ==
  CASE reason = "profit_target" -> { 15, 24 }
    [] reason = "lp_spike" -> { 13 }
    [] reason = "stop_loss" -> { 6, 7 }
    [] reason = "graduation" -> { 15, 29 }
    [] OTHER -> { 12, 19 }

\* mutant: the position is sold at its entry price
ExitPrice_flat(pos, mult) == pos.entry_price * 10

\* exit_price = pos.entry_price * mult   (in tenths, as mult)
ExitPrice(pos, mult) == pos.entry_price * mult

\* proceeds_usd = pos.qty * exit_price   (exit_price carries the tenths of mult)
ProceedsUsd(pos, mult) == (pos.qty.num * ExitPrice(pos, mult)) \div (pos.qty.den * 10)

\* mutant: the profit, not the proceeds, is credited
ProceedsSol_pnl(pos, mult) == (ProceedsUsd(pos, mult) - pos.usd_in) \div SolUsdPrice

\* proceeds_sol = proceeds_usd / sol_usd_price
ProceedsSol(pos, mult) == ProceedsUsd(pos, mult) \div SolUsdPrice

\* mutant: a position of the token being decided is left out of the exit check
ScanPosition_skipown ==
  /\ phase = "Deciding" /\ pc = "scan" /\ scan_idx <= Len(positions)
  /\ \E a \in ScanPairAnswers :
       LET pos == positions[scan_idx]
           current_ev == CurrentEv(Ev, pos, a)
           exit_decision == should_exit(current_ev, EntryLiquidity(Ev, pos),
                                        ConfigInUse)
       IN IF exit_decision.should_exit /\ pos.token_id # Ev.id
            THEN \E mult \in Multipliers(exit_decision.reason), w \in WriteOutcomes :
                   /\ sol_balance' = sol_balance + ProceedsSol(pos, mult)
                   /\ IF w = "ok"
                        THEN /\ trades' = update_trade_close(trades, pos.token_id,
                                            ExitPrice(pos, mult),
                                            ProceedsUsd(pos, mult) - pos.usd_in)
                             /\ closed_idxs' = Append(closed_idxs, scan_idx)
                             /\ scan_idx' = scan_idx + 1
                             /\ phase' = AfterLookup(a.ok, phase)
                             /\ UNCHANGED << pc, ledger_error >>
                        ELSE /\ Abort
                             /\ UNCHANGED << trades, closed_idxs, scan_idx >>
            ELSE /\ scan_idx' = scan_idx + 1
                 /\ phase' = AfterLookup(a.ok, phase)
                 /\ UNCHANGED << pc, sol_balance, trades, closed_idxs, ledger_error >>
  /\ UNCHANGED << time_left, listings, collected, positions, ev_idx,
                  token_events, run_metadata >>
  /\ SimFrame

\* simulator.rs 155-214: the exit check of one open position
ScanPosition ==
  /\ phase = "Deciding" /\ pc = "scan" /\ scan_idx <= Len(positions)
  /\ \E a \in ScanPairAnswers :
       LET pos == positions[scan_idx]
           current_ev == CurrentEv(Ev, pos, a)
           exit_decision == should_exit(current_ev, EntryLiquidity(Ev, pos),
                                        ConfigInUse)
       IN IF exit_decision.should_exit
            THEN \E mult \in Multipliers(exit_decision.reason), w \in WriteOutcomes :
                   /\ sol_balance' = sol_balance + ProceedsSol(pos, mult)
                   /\ IF w = "ok"
                        THEN /\ trades' = update_trade_close(trades, pos.token_id,
                                            ExitPrice(pos, mult),
                                            ProceedsUsd(pos, mult) - pos.usd_in)
                             /\ closed_idxs' = Append(closed_idxs, scan_idx)
                             /\ scan_idx' = scan_idx + 1
                             /\ phase' = AfterLookup(a.ok, phase)
                             /\ UNCHANGED << pc, ledger_error >>
                        ELSE /\ Abort
                             /\ UNCHANGED << trades, closed_idxs, scan_idx >>
            ELSE /\ scan_idx' = scan_idx + 1
                 /\ phase' = AfterLookup(a.ok, phase)
                 /\ UNCHANGED << pc, sol_balance, trades, closed_idxs, ledger_error >>
  /\ UNCHANGED << time_left, listings, collected, positions, ev_idx,
                  token_events, run_metadata >>
  /\ SimFrame

RECURSIVE RemoveAll(_, _)

\* mutant: only the last marked position is removed
RemoveAll_last(ps, idxs) ==
  IF idxs = << >> THEN ps
  ELSE LET j == idxs[Len(idxs)]
       IN SubSeq(ps, 1, j - 1) \o SubSeq(ps, j + 1, Len(ps))

\* for j in closed_idxs.iter().rev() { positions.remove(*j) }
RemoveAll(ps, idxs) ==
  IF idxs = << >> THEN ps
  ELSE LET j == idxs[Len(idxs)]
       IN RemoveAll(SubSeq(ps, 1, j - 1) \o SubSeq(ps, j + 1, Len(ps)),
                    SubSeq(idxs, 1, Len(idxs) - 1))

\* mutant: the decide loop ends after its first event
EndScan_early ==
  /\ phase = "Deciding" /\ pc = "scan" /\ scan_idx > Len(positions)
  /\ positions' = RemoveAll(positions, closed_idxs)
  /\ closed_idxs' = << >>
  /\ scan_idx' = 1
  /\ ev_idx' = ev_idx + 1
  /\ phase' = "Finalizing" /\ pc' = "marker"
  /\ UNCHANGED << time_left, listings, collected, sol_balance >>
  /\ LedgerFrame /\ SimFrame

\* the scan is over: apply the removals and take the next buffered event
EndScan ==
  /\ phase = "Deciding" /\ pc = "scan" /\ scan_idx > Len(positions)
  /\ positions' = RemoveAll(positions, closed_idxs)
  /\ closed_idxs' = << >>
  /\ scan_idx' = 1
  /\ ev_idx' = ev_idx + 1
  /\ IF ev_idx = Len(collected)
       THEN phase' = "Finalizing" /\ pc' = "marker"
       ELSE phase' = "Deciding" /\ pc' = "upsert"
  /\ UNCHANGED << time_left, listings, collected, sol_balance >>
  /\ LedgerFrame /\ SimFrame

(***************************************************************************)
(* simulator.rs 221-229 : Finalizing                                       *)
(***************************************************************************)
\* println!("... Remaining SOL balance: {} SOL", portfolio.sol_balance)
RemainingBalance == sol_balance

\* mutant: what is still open is sold back at its cost before the marker
Finalize_liquidate ==
  /\ phase = "Finalizing" /\ pc = "marker"
  /\ \E w \in WriteOutcomes :
       IF w = "ok"
         THEN /\ run_metadata' = run_metadata + 1
              /\ phase' = "Done"
              /\ pc' = "end"
              /\ UNCHANGED ledger_error
         ELSE /\ Abort
              /\ UNCHANGED run_metadata
  /\ UNCHANGED << time_left, listings, collected, ev_idx, scan_idx, closed_idxs,
                  token_events, trades >>
  /\ positions' = << >>
  /\ sol_balance' = sol_balance + Len(positions) * MaxPerTradeSol
  /\ SimFrame

\* the run_metadata marker, then the report
Finalize ==
  /\ phase = "Finalizing" /\ pc = "marker"
  /\ \E w \in WriteOutcomes :
       IF w = "ok"
         THEN /\ run_metadata' = run_metadata + 1
              /\ phase' = "Done"
              /\ pc' = "end"
              /\ UNCHANGED ledger_error
         ELSE /\ Abort
              /\ UNCHANGED run_metadata
  /\ UNCHANGED << time_left, listings, collected, ev_idx, scan_idx, closed_idxs,
                  token_events, trades >>
  /\ PortfolioFrame /\ SimFrame

(***************************************************************************)
(* The run                                                                 *)
(***************************************************************************)
\* an event as the conversion leaves it when the listing carries no figure
BlankEv == TokenEventFrom([ token_address |-> "t1", fully_diluted_valuation |-> Absent,
                            price_usd |-> Absent, liquidity |-> Absent ])

\* while a run is going on the strategy functions are not exercised on their own
FnIdle ==
  /\ fn_ev = BlankEv
  /\ fn_config = DefaultConfig
  /\ fn_entry_liquidity = 0
  /\ fn_out = [ op |-> "none", flag |-> FALSE, score |-> 0, reason |-> "" ]

SimInit ==
  /\ phase = "Ingesting" /\ pc = "poll"
  /\ time_left \in 0..MaxTicks
  /\ listings = << >>
  /\ collected = << >>
  /\ sol_balance = StartingSolBalance
  /\ positions = << >>
  /\ ev_idx = 1
  /\ scan_idx = 1
  /\ closed_idxs = << >>
  /\ token_events = [ t \in TokenIds |-> NoRow ]
  /\ trades = << >>
  /\ run_metadata = 0
  /\ ledger_error = FALSE

\* while the strategy functions are exercised on their own no run is going on
SimIdle == SimInit /\ time_left = 0

(***************************************************************************)
(* The strategy functions on their own: the inputs are drawn in FnInit and *)
(* each action is one call.                                                *)
(***************************************************************************)
\* events for the scoring side: entry_market_cap = market_cap_usd as the
\* conversion leaves it
ScoreEvents ==
  { [ BlankEv EXCEPT !.holders = h, !.dev_hold_pct = d, !.liquidity_usd = l,
                     !.market_cap_usd = m, !.entry_market_cap = m,
                     !.upgradeable = u, !.freeze_authority = f, !.momentum = mo,
                     !.graduation = g, !.is_dev_known_rugger = r ] :
      h \in { 0, 10, 250, 2000 }, d \in { 3, 10, 12, 15, 16 },
      l \in { 0, 5000, 30000 },
      m \in { 1000, 5000, 100000, 250000, 300000, 400000 },
      u \in BOOLEAN, f \in BOOLEAN, mo \in BOOLEAN, g \in BOOLEAN, r \in BOOLEAN }

\* events for the exit side
ExitEvents ==
  { [ BlankEv EXCEPT !.market_cap_usd = m, !.entry_market_cap = e,
                     !.liquidity_usd = l, !.raydium_lp_detected = rd,
                     !.graduation = g ] :
      m \in { 0, 75000, 80000, 100000, 149000, 160000, 200000, 250000 },
      e \in { 0, 100000 }, l \in { 0, 2000, 2500 },
      rd \in BOOLEAN, g \in BOOLEAN }

FnInit ==
  /\ \/ fn_ev \in ScoreEvents /\ fn_entry_liquidity = 0
     \/ fn_ev \in ExitEvents /\ fn_entry_liquidity \in { 0, 1000 }
  /\ fn_config \in Configs
  /\ fn_out = [ op |-> "none", flag |-> FALSE, score |-> 0, reason |-> "" ]

SimUnchanged == UNCHANGED sim_vars

CallComputeScore ==
  /\ fn_out' = [ op |-> "compute_score", flag |-> FALSE,
                 score |-> compute_score(fn_ev, fn_config), reason |-> "" ]
  /\ UNCHANGED << fn_ev, fn_config, fn_entry_liquidity >>
  /\ SimUnchanged

CallPassesBasicFilters ==
  /\ fn_out' = [ op |-> "passes_basic_filters",
                 flag |-> passes_basic_filters(fn_ev, fn_config),
                 score |-> 0, reason |-> "" ]
  /\ UNCHANGED << fn_ev, fn_config, fn_entry_liquidity >>
  /\ SimUnchanged

CallDecide ==
  /\ LET d == decide(fn_ev, fn_config)
     IN fn_out' = [ op |-> "decide", flag |-> d.should_buy,
                    score |-> d.score, reason |-> "" ]
  /\ UNCHANGED << fn_ev, fn_config, fn_entry_liquidity >>
  /\ SimUnchanged

CallShouldExit ==
  /\ LET x == should_exit(fn_ev, fn_entry_liquidity, fn_config)
     IN fn_out' = [ op |-> "should_exit", flag |-> x.should_exit,
                    score |-> 0, reason |-> x.reason ]
  /\ UNCHANGED << fn_ev, fn_config, fn_entry_liquidity >>
  /\ SimUnchanged

FnNext ==
  \/ CallComputeScore
  \/ CallPassesBasicFilters
  \/ CallDecide
  \/ CallShouldExit

InitFn == SimIdle /\ FnInit

SpecFn == InitFn /\ [][FnNext]_vars

Init == SimInit /\ FnIdle

Next ==
  \/ Poll
  \/ IngestListing
  \/ EmptyBatch
  \/ Sleep
  \/ EndIngest
  \/ Upsert
  \/ Entry
  \/ ScanPosition
  \/ EndScan
  \/ Finalize

Spec == Init /\ [][Next]_vars

\* The run is one sequential task: as long as every await returns (fetch,
\* lookup, sleep, ledger write) it takes its next step.
SpecLive == Init /\ [][Next]_vars /\ WF_vars(Next)

(***************************************************************************)
(* The decide loop on its own, under any preset: the run stands at the     *)
(* start of a Deciding step, after a history the program can have had.     *)
(***************************************************************************)
\* the events ingestion can have buffered
StepEvents == { Enrich(l, a) : l \in Listings, a \in EnrichAnswers }

\* the exit decision of the scan in the step that bought event h, when the
\* lookup answers a
OwnStepExit(h, a, impact, cfg) ==
  LET pos == NewPosition(h, StartingSolBalance, impact, decide(h, cfg).score)
  IN should_exit(CurrentEv(h, pos, a), EntryLiquidity(h, pos), cfg)

\* h is bought and its position stays open while the lookups fail
Holdable(h, impact, cfg) ==
  /\ decide(h, cfg).should_buy
  /\ ~OwnStepExit(h, Failed, impact, cfg).should_exit

\* n positions bought one after the other out of the starting balance
HeldPositions(h, n, impact, cfg) ==
  [ i \in 1..n |-> NewPosition(h, StartingSolBalance - (i - 1) * MaxPerTradeSol,
                                impact, decide(h, cfg).score) ]

\* the trades row of an open position, and of a position closed at mult
OpenRow(pos) == append_trade_open(<< >>, pos)[1]
ClosedRow(pos, mult) ==
  update_trade_close(<< OpenRow(pos) >>, pos.token_id, ExitPrice(pos, mult),
                     ProceedsUsd(pos, mult) - pos.usd_in)[1]

NoRows == [ t \in TokenIds |-> NoRow ]

\* History "held": n events h were bought and are all still open.
HeldStart(e, impact) ==
  \E n \in 0..MaxOpenPositions, h \in StepEvents :
    /\ n > 0 => Holdable(h, impact, fn_config)
    /\ collected = [ i \in 1..n |-> h ] \o << e >>
    /\ ev_idx = n + 1
    /\ positions = HeldPositions(h, n, impact, fn_config)
    /\ sol_balance = StartingSolBalance - n * MaxPerTradeSol
    /\ trades = [ i \in 1..n |-> OpenRow(positions[i]) ]
    /\ token_events = IF n = 0 THEN NoRows
                      ELSE upsert_observation(NoRows, h, compute_score(h, fn_config))

\* History "drained": an event g was bought and closed with a gain in its own
\* step, then events b without a price were bought and closed for nothing, one
\* per step, until less than one full trade size is left.
DrainedStart(e, impact) ==
  \E g \in StepEvents, b \in StepEvents, ag \in ScanPairAnswers :
    LET cfg == fn_config
        pg == NewPosition(g, StartingSolBalance, impact, decide(g, cfg).score)
        pb == NewPosition(b, MaxPerTradeSol, impact, decide(b, cfg).score)
        xg == OwnStepExit(g, ag, impact, cfg)
        xb == OwnStepExit(b, Failed, impact, cfg)
    IN /\ decide(g, cfg).should_buy /\ xg.should_exit
       /\ decide(b, cfg).should_buy /\ xb.should_exit /\ b.base_price = 0
       /\ \E mg \in Multipliers(xg.reason), mb \in Multipliers(xb.reason) :
            LET after_gain == StartingSolBalance - MaxPerTradeSol + ProceedsSol(pg, mg)
                k == after_gain \div MaxPerTradeSol
                left == after_gain - k * MaxPerTradeSol
            IN /\ left > MinTradeFloor
               /\ collected = << g >> \o [ i \in 1..k |-> b ] \o << e >>
               /\ ev_idx = k + 2
               /\ positions = << >>
               /\ sol_balance = left
               /\ trades = << ClosedRow(pg, mg) >> \o [ i \in 1..k |-> ClosedRow(pb, mb) ]
               /\ token_events =
                    upsert_observation(
                      upsert_observation(NoRows, g, compute_score(g, cfg)),
                      b, compute_score(b, cfg))

InitStep ==
  /\ fn_config \in Presets
  /\ fn_ev = BlankEv
  /\ fn_entry_liquidity = 0
  /\ fn_out = [ op |-> "none", flag |-> FALSE, score |-> 0, reason |-> "" ]
  /\ phase = "Deciding" /\ pc = "upsert"
  /\ time_left = 0
  /\ listings = << >>
  /\ scan_idx = 1
  /\ closed_idxs = << >>
  /\ run_metadata = 0
  /\ ledger_error = FALSE
  /\ \E e \in StepEvents, impact \in Impacts :
       HeldStart(e, impact) \/ DrainedStart(e, impact)

NextStep ==
  \/ Upsert
  \/ Entry
  \/ ScanPosition
  \/ EndScan
  \/ Finalize

SpecStep == InitStep /\ [][NextStep]_vars

(***************************************************************************)
(* Claims about the strategy functions (checked under SpecFn)              *)
(***************************************************************************)

\* C6: should_exit returns exactly the first rule, in the order stop_loss,
\* profit_target, lp_spike, graduation, whose condition holds; when stop_loss
\* and profit_target both hold it returns stop_loss; it returns
\* should_exit = false with an empty reason iff none of the four holds.
C6_FirstMatchWins ==
  fn_out.op = "should_exit" =>
    LET sl == StopLossHit(fn_ev, fn_config)
        pt == ProfitTargetHit(fn_ev, fn_config)
        lp == LpSpikeHit(fn_ev, fn_entry_liquidity, fn_config)
        gr == fn_ev.graduation
    IN /\ sl => fn_out.flag /\ fn_out.reason = "stop_loss"
       /\ ~sl /\ pt => fn_out.flag /\ fn_out.reason = "profit_target"
       /\ ~sl /\ ~pt /\ lp => fn_out.flag /\ fn_out.reason = "lp_spike"
       /\ ~sl /\ ~pt /\ ~lp /\ gr => fn_out.flag /\ fn_out.reason = "graduation"
       /\ (~fn_out.flag /\ fn_out.reason = "") <=> (~sl /\ ~pt /\ ~lp /\ ~gr)
       /\ fn_out.flag <=> fn_out.reason # ""

\* the stop_loss and the profit_target conditions hold together and the call
\* answered stop_loss
C6_Witness ==
  /\ fn_out.op = "should_exit"
  /\ StopLossHit(fn_ev, fn_config) /\ ProfitTargetHit(fn_ev, fn_config)
  /\ fn_out.reason = "stop_loss"

\* C7: compute_score returns a value in [0, 100] for every event and every
\* configuration.
C7_ScoreInRange ==
  fn_out.op \in { "compute_score", "decide" } =>
    fn_out.score >= 0 /\ fn_out.score <= 10000

\* the unclamped sum is above 100 and the call answered 100
C7_Witness ==
  /\ fn_out.op = "compute_score"
  /\ RawScore(fn_ev, fn_config) > 10000
  /\ ~fn_ev.is_dev_known_rugger
  /\ fn_out.score = 10000

\* C8: with is_dev_known_rugger set, compute_score is exactly 0,
\* passes_basic_filters is false and decide answers should_buy = false.
C8_KnownRugger ==
  fn_ev.is_dev_known_rugger =>
    /\ fn_out.op = "compute_score" => fn_out.score = 0
    /\ fn_out.op = "passes_basic_filters" => ~fn_out.flag
    /\ fn_out.op = "decide" => ~fn_out.flag /\ fn_out.score = 0

\* a known rugger whose other fields would have scored well above zero
C8_Witness ==
  /\ fn_ev.is_dev_known_rugger
  /\ fn_out.op = "compute_score"
  /\ RawScore(fn_ev, fn_config) >= fn_config.min_score_to_buy
  /\ fn_out.score = 0

\* C9: decide answers should_buy exactly when the basic filters pass, the
\* score reaches min_score_to_buy and the momentum-or-graduation requirement
\* is off or met; the score it returns is compute_score.
C9_DecideIff ==
  fn_out.op = "decide" =>
    /\ fn_out.flag <=>
         /\ passes_basic_filters(fn_ev, fn_config)
         /\ compute_score(fn_ev, fn_config) >= fn_config.min_score_to_buy
         /\ \/ ~fn_config.require_momentum_or_graduation
            \/ fn_ev.momentum
            \/ fn_ev.graduation
    /\ fn_out.score = compute_score(fn_ev, fn_config)

\* filters and score are fine, and the missing signal alone refuses the buy
C9_Witness ==
  /\ fn_out.op = "decide"
  /\ passes_basic_filters(fn_ev, fn_config)
  /\ compute_score(fn_ev, fn_config) >= fn_config.min_score_to_buy
  /\ fn_config.require_momentum_or_graduation
  /\ ~fn_ev.momentum /\ ~fn_ev.graduation
  /\ ~fn_out.flag

StepBoundary ==
  \/ phase = "Deciding" /\ pc = "upsert" /\ ev_idx > 1
  \/ phase \in { "Finalizing", "Done" } /\ collected # << >>

OpenPositionsOf(t) == { i \in 1..Len(positions) : positions[i].token_id = t }

\* C1: the number of open positions never exceeds max_positions of the
\* configuration in use (in particular after every Deciding step).
C1_PositionsWithinMax == Len(positions) <= ConfigInUse.max_positions

\* the cap is reached and the last event, which decide approved with capital
\* above the floor, opened nothing
C1_Witness ==
  /\ StepBoundary
  /\ phase = "Finalizing"
  /\ Len(positions) = ConfigInUse.max_positions
  /\ decide(collected[Len(collected)], ConfigInUse).should_buy
  /\ sol_balance > MinTradeFloor
  /\ Len(trades) = ConfigInUse.max_positions

\* C2: available_capital (sol_balance) is never negative.
C2_BalanceNonNegative == sol_balance >= 0

\* six buys, the capital is used up, and at least one position was closed
C2_Witness ==
  /\ sol_balance = 0
  /\ Len(trades) = 6
  /\ \E i \in 1..Len(trades) : trades[i].action = "SELL"

\* C3: no two open positions, and no two open BUY records, share a token_id.
C3_NoTwoOpenForOneToken ==
  \A t \in TokenIds :
    /\ Cardinality(OpenPositionsOf(t)) <= 1
    /\ Cardinality(OpenBuys(trades, t)) <= 1

\* C4: after every Deciding step every open position has exactly one open
\* BUY record of its token, and every open BUY record has an open position.
C4_PositionsMatchLedger ==
  StepBoundary =>
    \A t \in TokenIds :
      /\ OpenPositionsOf(t) # {} => Cardinality(OpenBuys(trades, t)) = 1
      /\ OpenBuys(trades, t) # {} => OpenPositionsOf(t) # {}

\* C5: a close updates exactly one open BUY record of the position's token,
\* and a record marked SELL is never modified again.
C5_CloseMatchesOne ==
  [][ /\ Len(closed_idxs') > Len(closed_idxs)
        => Cardinality(OpenBuys(trades, positions[scan_idx].token_id)) = 1
      /\ \A i \in 1..Len(trades) :
           trades[i].action = "SELL" => trades'[i] = trades[i] ]_vars

\* C11: every open position has entry_price > 0, quantity > 0 and
\* usd_invested > 0, whatever observation was bought (also one whose
\* base_price defaulted to 0).
C11_PositionsPositive ==
  \A i \in 1..Len(positions) :
    /\ positions[i].entry_price > 0
    /\ positions[i].qty.num > 0
    /\ positions[i].usd_in > 0

\* C12: a ledger write that fails (observation upsert, BUY insert, SELL
\* update, run-completion insert) aborts the run: the failing write stores
\* nothing, and from then on no further observation is decided, the portfolio
\* and the ledger do not change, and no run-completion marker is written.
C12_LedgerFailureAborts ==
  [][ /\ (ledger_error' /\ ~ledger_error)
           => /\ phase' = "Aborted"
              /\ run_metadata = 0
              /\ UNCHANGED << token_events, trades, run_metadata >>
      /\ ledger_error
           => UNCHANGED << phase, ev_idx, scan_idx, sol_balance, positions,
                           token_events, trades, run_metadata >> ]_vars

\* a write failed after a trade was recorded, with buffered observations
\* still undecided
C12_Witness ==
  /\ ledger_error
  /\ phase = "Aborted"
  /\ trades # << >>
  /\ ev_idx < Len(collected)
  /\ run_metadata = 0

ValidConfig(c) ==
  /\ c.min_profit_target_pct <= c.max_profit_target_pct
  /\ c.min_profit_target_pct >= 0 /\ c.stop_loss_pct >= 0
  /\ c.min_market_cap_usd >= 0 /\ c.max_market_cap_usd >= 0
  /\ c.min_holders >= 0 /\ c.max_dev_hold_pct >= 0
  /\ c.min_liquidity_usd >= 0 /\ c.min_score_to_buy >= 0

\* C14: an invalid configuration (min_profit_target_pct above
\* max_profit_target_pct, or a negative threshold) makes the program fail
\* before anything is decided: no strategy function returns a result under
\* an invalid configuration.
C14_InvalidConfigRejected ==
  ValidConfig(fn_config) \/ fn_out.op = "none"

\* the order of the phases of a run (Aborted: the run returned an Err)
PhaseRank(ph) ==
  CASE ph = "Ingesting" -> 1
    [] ph = "Deciding" -> 2
    [] ph = "Finalizing" -> 3
    [] ph = "Done" -> 4
    [] ph = "Aborted" -> 5

\* C15: the phases follow one another in the order Ingesting, Deciding,
\* Finalizing and never go back; the run-completion marker is written once,
\* in Finalizing, after every buffered observation has been decided (and
\* persisted), and a run that completes has written exactly one.
C15_OrderedPhasesOneMarker ==
  [][ /\ PhaseRank(phase') >= PhaseRank(phase)
      /\ run_metadata' # run_metadata
           => /\ run_metadata = 0 /\ run_metadata' = 1
              /\ phase = "Finalizing"
              /\ ev_idx = Len(collected) + 1
              /\ \A i \in 1..Len(collected) : token_events[collected[i].id].present
              /\ ~ledger_error'
      /\ phase' = "Done" => run_metadata' = 1 ]_vars

\* a completed run over at least two buffered observations, with a trade
C15_Witness ==
  /\ phase = "Done"
  /\ run_metadata = 1
  /\ Len(collected) >= 2
  /\ trades # << >>

\* C16: upsert_observation is idempotent by id.  In every successful upsert
\* step: an id already present keeps its stored row; repeating the write
\* with the same event and score, or with the same id and any other score,
\* leaves the table as the first write left it; no other row is touched.
C16_UpsertIdempotent ==
  [][ (phase = "Deciding" /\ pc = "upsert" /\ pc' = "entry")
        => LET score == compute_score(Ev, ConfigInUse)
           IN /\ token_events'[Ev.id].present
              /\ token_events[Ev.id].present => token_events' = token_events
              /\ upsert_observation(token_events', Ev, score) = token_events'
              /\ \A other \in { 0, 5000, 10000 } :
                   upsert_observation(token_events', Ev, other) = token_events'
              /\ \A t \in TokenIds \ { Ev.id } :
                   token_events'[t] = token_events[t] ]_vars

\* the event just persisted met a row of its id written for an earlier,
\* different event: the row still shows the earlier holder count and score
C16_Witness ==
  /\ phase = "Deciding" /\ pc = "entry" /\ ev_idx > 1
  /\ token_events[Ev.id].present
  /\ token_events[Ev.id].holders # Ev.holders
  /\ token_events[Ev.id].score # compute_score(Ev, ConfigInUse)

\* the observation of scenario A
ScenarioA ==
  [ BlankEv EXCEPT !.holders = 250, !.dev_hold_pct = 3, !.liquidity_usd = 5000,
                   !.market_cap_usd = 100000, !.entry_market_cap = 100000,
                   !.momentum = TRUE ]

\* C17: under the default parameters the observation of scenario A (holders
\* 250, dev hold 3%, liquidity 5000, market cap 100000, momentum, no
\* upgradeable/freeze/rugger flag) has an unclamped sum above 100, gets the
\* score 100 exactly, and decide returns should_buy = true with that score.
C17_ScenarioA ==
  (fn_ev = ScenarioA /\ fn_config = DefaultConfig)
    => /\ RawScore(fn_ev, fn_config) > 10000
       /\ fn_out.op = "compute_score" => fn_out.score = 10000
       /\ fn_out.op = "decide" => fn_out.flag /\ fn_out.score = 10000

\* decide has been called on scenario A under the default parameters
C17_Witness ==
  /\ fn_ev = ScenarioA
  /\ fn_config = DefaultConfig
  /\ fn_out.op = "decide"
  /\ fn_out.flag

\* the buffered events that can have opened this position: decided so far,
\* of the position's token, approved by decide
Openers(pos) ==
  { i \in 1..ev_idx : /\ collected[i].id = pos.token_id
                      /\ decide(collected[i], ConfigInUse).should_buy }

\* C18: the exit check of an open position is evaluated with the position's
\* own entry_market_cap and with the liquidity recorded when the position
\* opened, not with values of the observation being decided: whatever the
\* lookup answers, the entry_market_cap of the event handed to should_exit
\* and the entry liquidity handed to it are those of an event that opened
\* the position.
C18_ExitUsesOwnEntryData ==
  (phase = "Deciding" /\ pc = "scan" /\ scan_idx <= Len(positions))
    => LET pos == positions[scan_idx]
       IN \E i \in Openers(pos) :
            /\ EntryLiquidity(Ev, pos) = collected[i].liquidity_usd
            /\ \A a \in ScanPairAnswers :
                 CurrentEv(Ev, pos, a).entry_market_cap = collected[i].entry_market_cap

(***************************************************************************)
(* Claims about the entry part of a Deciding step (checked under SpecStep) *)
(***************************************************************************)
\* C19: in a Deciding step a position is opened if and only if decide
\* returned should_buy and available_capital exceeds the minimal trade floor
\* and the number of open positions is below max_positions of the preset in
\* use; when one of the three fails the entry part leaves available_capital,
\* the open positions and the trades ledger unchanged.
C19_OpensIff ==
  [][ (phase = "Deciding" /\ pc = "entry")
        => LET may == /\ decide(Ev, ConfigInUse).should_buy
                      /\ sol_balance > MinTradeFloor
                      /\ Len(positions) < ConfigInUse.max_positions
           IN /\ may <=> Len(positions') = Len(positions) + 1
              /\ ~may => UNCHANGED << sol_balance, positions, trades >> ]_vars

\* C20: opening a position is atomic in its bookkeeping.  The step that opens
\* one debits available_capital by exactly min(max_sol_per_trade,
\* available_capital), appends exactly one Position at the end of the open
\* set, for the event's token, with usd_invested = trade_size x sol_usd_price,
\* and appends exactly one BUY record with the same token_id, entry_price,
\* quantity, usd_invested and score (the score decide returned).  The one
\* other outcome is the failed insert: then the ledger holds no part of the
\* record and the run is over.
C20_OpenIsAtomic ==
  [][ (phase = "Deciding" /\ pc = "entry" /\ positions' # positions)
        => LET trade_size == Min(ConfigInUse.max_sol_per_trade, sol_balance)
               pos == positions'[Len(positions')]
               rec == trades'[Len(trades')]
           IN /\ sol_balance' = sol_balance - trade_size
              /\ positions' = Append(positions, pos)
              /\ pos.token_id = Ev.id
              /\ pos.usd_in = trade_size * ConfigInUse.sol_usd_price
              /\ pos.score = decide(Ev, ConfigInUse).score
              /\ \/ /\ ~ledger_error'
                    /\ trades' = Append(trades, rec)
                    /\ rec.action = "BUY" /\ rec.exit_null
                    /\ rec.token_id = pos.token_id
                    /\ rec.entry_price = pos.entry_price
                    /\ rec.qty = pos.qty
                    /\ rec.usd_in = pos.usd_in
                    /\ rec.score = pos.score
                 \/ /\ ledger_error' /\ phase' = "Aborted"
                    /\ trades' = trades ]_vars

\* a position has just been opened with less than a full trade size, which
\* was all the capital left, and its BUY record is the last of the ledger
C20_Witness ==
  /\ phase = "Deciding" /\ pc = "scan" /\ scan_idx = 1
  /\ ~ledger_error
  /\ positions # << >> /\ trades # << >>
  /\ sol_balance = 0
  /\ LET pos == positions[Len(positions)]
         rec == trades[Len(trades)]
     IN /\ pos.usd_in > 0
        /\ pos.usd_in < ConfigInUse.max_sol_per_trade * ConfigInUse.sol_usd_price
        /\ pos.token_id = Ev.id
        /\ rec.action = "BUY" /\ rec.token_id = pos.token_id
        /\ rec.usd_in = pos.usd_in

(***************************************************************************)
(* Claims about the exit scan (checked under SpecStep)                     *)
(***************************************************************************)
\* every multiplier a close can draw
AllMultipliers ==
  UNION { Multipliers(r) : r \in { "profit_target", "lp_spike", "stop_loss",
                                   "graduation", "" } }

\* the positions of ps whose index is not in idxs, in the order of ps
RECURSIVE Survivors(_, _, _)
Survivors(ps, idxs, from) ==
  IF from > Len(ps) THEN << >>
  ELSE IF \E k \in 1..Len(idxs) : idxs[k] = from
    THEN Survivors(ps, idxs, from + 1)
    ELSE << ps[from] >> \o Survivors(ps, idxs, from + 1)

\* a step of the scan that closes the position under scan / that ends the scan
ClosingStep == phase = "Deciding" /\ pc = "scan" /\ Len(closed_idxs') > Len(closed_idxs)
ScanEndStep == phase = "Deciding" /\ pc = "scan" /\ ev_idx' # ev_idx

\* C21: a position is never partially closed.  The step that closes one
\* credits available_capital by exactly quantity x exit_price / sol_usd_price
\* with exit_price = entry_price x multiplier, records that exit_price and
\* pnl = proceeds - usd_invested in the open BUY record(s) of the token, and
\* at the end of the step the whole position is gone from the open set while
\* the others are as they were.
C21_WholeClose ==
  [][ /\ ClosingStep
           => LET pos == positions[scan_idx]
              IN \E mult \in AllMultipliers :
                   LET exit_price == pos.entry_price * mult
                       proceeds == (pos.qty.num * exit_price) \div (pos.qty.den * 10)
                   IN /\ sol_balance' = sol_balance + proceeds \div ConfigInUse.sol_usd_price
                      /\ OpenBuys(trades, pos.token_id) # {}
                      /\ \A i \in OpenBuys(trades, pos.token_id) :
                           /\ trades'[i].action = "SELL"
                           /\ trades'[i].exit_price = exit_price
                           /\ trades'[i].pnl = proceeds - pos.usd_in
                      /\ closed_idxs' = Append(closed_idxs, scan_idx)
      /\ ScanEndStep
           => /\ Len(positions') = Len(positions) - Len(closed_idxs)
              /\ positions' = Survivors(positions, closed_idxs, 1) ]_vars

\* C22: during the exit scan of a step the open positions are not mutated.
\* Every step of the scan leaves the vector as it is and moves on by one
\* position (each position open at the start is evaluated once, in order),
\* marking the position under scan or nothing; the removals come when the
\* scan has passed the last position, they take exactly the marked positions
\* and leave the others in their order.
C22_ScanOnSnapshot ==
  [][ /\ (phase = "Deciding" /\ pc = "scan" /\ ~ScanEndStep /\ ~ledger_error')
           => /\ positions' = positions
              /\ scan_idx <= Len(positions)
              /\ scan_idx' = scan_idx + 1
              /\ closed_idxs' \in { closed_idxs, Append(closed_idxs, scan_idx) }
      /\ ScanEndStep
           => /\ scan_idx = Len(positions) + 1
              /\ \A k \in 1..Len(closed_idxs) :
                   /\ closed_idxs[k] \in 1..Len(positions)
                   /\ k > 1 => closed_idxs[k - 1] < closed_idxs[k]
              /\ Len(positions') = Len(positions) - Len(closed_idxs)
              /\ positions' = Survivors(positions, closed_idxs, 1) ]_vars

\* a scan is complete with the first and a later position marked and an
\* unmarked position between them
C22_Witness ==
  /\ phase = "Deciding" /\ pc = "scan"
  /\ scan_idx = Len(positions) + 1
  /\ Len(closed_idxs) >= 2
  /\ closed_idxs[1] = 1
  /\ closed_idxs[2] > 2

(***************************************************************************)
(* Claims about the order of a run (checked under Spec)                    *)
(***************************************************************************)
\* C23: observations are decided in the order they were ingested, and within
\* a Deciding step the observation is persisted first, then its entry
\* decision is taken, then all open positions, the one just opened included,
\* are exit-checked in insertion order.  The buffer only grows at its end
\* while ingesting and is fixed afterwards; the step of index k persists and
\* decides the k-th buffered observation; the steps follow the index one by
\* one; inside a step the table row comes before the position, and the scan
\* starts at the first position after the entry part and has passed the last
\* position of the vector when the step ends.
C23_DecidedInIngestOrder ==
  [][ /\ collected' # collected
           => phase = "Ingesting" /\ Len(collected') = Len(collected) + 1
              /\ SubSeq(collected', 1, Len(collected)) = collected
      /\ ev_idx' \in { ev_idx, ev_idx + 1 }
      /\ token_events' # token_events
           => pc = "upsert" /\ pc' = "entry"
              /\ token_events'[collected[ev_idx].id].present
              /\ \A t \in TokenIds \ { collected[ev_idx].id } :
                   token_events'[t] = token_events[t]
      /\ (phase = "Deciding" /\ positions' # positions /\ ev_idx' = ev_idx)
           => pc = "entry"
              /\ token_events[collected[ev_idx].id].present
              /\ positions'[Len(positions')].token_id = collected[ev_idx].id
      /\ (phase = "Deciding" /\ pc = "entry" /\ ~ledger_error')
           => pc' = "scan" /\ scan_idx' = 1 /\ closed_idxs' = << >>
      /\ (phase = "Deciding" /\ (scan_idx' # scan_idx \/ closed_idxs' # closed_idxs)
            /\ pc # "entry" /\ ev_idx' = ev_idx)
           => pc = "scan" /\ scan_idx' = scan_idx + 1
      /\ (phase = "Deciding" /\ ev_idx' # ev_idx)
           => pc = "scan" /\ scan_idx = Len(positions) + 1
              /\ ev_idx <= Len(collected) ]_vars

\* the second buffered observation, of another token than the first, has
\* been persisted and bought, and the scan of its step has reached the
\* position just opened, after an older one
C23_Witness ==
  /\ phase = "Deciding" /\ pc = "scan" /\ ev_idx = 2
  /\ collected[1].id # collected[2].id
  /\ token_events[collected[1].id].present
  /\ token_events[collected[2].id].present
  /\ Len(positions) >= 2
  /\ scan_idx = Len(positions)
  /\ positions[scan_idx].token_id = collected[ev_idx].id

(***************************************************************************)
(* Claims about the terms of the score (checked under SpecFn)              *)
(***************************************************************************)
\* the market-cap term as the specification describes it
SweetRangeTerm(ev, config) ==
  IF ev.market_cap_usd >= config.min_market_cap_usd /\ ev.market_cap_usd <= 250000
    THEN config.market_cap_sweet_spot_bonus
  ELSE IF ev.market_cap_usd > 250000 /\ ev.market_cap_usd <= config.max_market_cap_usd
    THEN 500
  ELSE 0

\* C24: the market-cap term of compute_score adds market_cap_sweet_spot_bonus
\* exactly when market_cap_usd lies in [min_market_cap_usd, 250000] of the
\* parameters in use, the smaller flat bonus exactly when it is above 250000
\* and at most max_market_cap_usd, and nothing otherwise: the score
\* compute_score returns is the clamped sum of the other terms and that term.
C24_MarketCapTerm ==
  (fn_out.op = "compute_score" /\ ~fn_ev.is_dev_known_rugger)
    => fn_out.score =
         Min(Max(RawScore(fn_ev, fn_config) - MarketCapTerm(fn_ev, fn_config)
                   + SweetRangeTerm(fn_ev, fn_config), 0), 10000)

(***************************************************************************)
(* Claims about the exit reasons of a run (checked under SpecStep)         *)
(***************************************************************************)
\* the scan stands at an open position
ScanningPosition == phase = "Deciding" /\ pc = "scan" /\ scan_idx <= Len(positions)

\* what the scan decides for the position under scan when the lookup answers a
ScanDecision(a) ==
  should_exit(CurrentEv(Ev, positions[scan_idx], a),
              EntryLiquidity(Ev, positions[scan_idx]), ConfigInUse)

\* C25: in the simulator a position exits with reason lp_spike on liquidity
\* grounds only when the entry liquidity is above 0 and the liquidity just
\* fetched exceeds entry_liquidity x lp_spike_exit_multiplier; with an entry
\* liquidity of 0 a positive fetched liquidity alone gives no lp_spike exit.
C25_LpSpikeNeedsEntryLiquidity ==
  ScanningPosition
    => \A a \in ScanPairAnswers :
         LET entry_liquidity == EntryLiquidity(Ev, positions[scan_idx])
             x == ScanDecision(a)
         IN (x.should_exit /\ x.reason = "lp_spike" /\ ~Ev.raydium_lp_detected)
              => /\ entry_liquidity > 0
                 /\ a.ok
                 /\ a.val > entry_liquidity * ConfigInUse.lp_spike_exit_multiplier

(***************************************************************************)
(* Termination (checked under SpecLive)                                    *)
(***************************************************************************)
\* C26: the run terminates.  The deadline is looked at before each poll and
\* before each listing only: a poll starts only before the deadline, a fetch
\* in flight when the deadline passes still delivers its batch, of which
\* nothing is buffered any more, and once the deadline has passed at the loop
\* head ingestion is over; if every await returns and no ledger write fails,
\* the run reaches Finalizing.
C26_Terminates ==
  /\ [][ /\ (phase = "Ingesting" /\ pc = "poll" /\ pc' = "listing") => time_left > 0
         /\ (phase = "Ingesting" /\ pc = "poll" /\ time_left = 0)
              => phase' # "Ingesting" /\ collected' = collected
         /\ (phase = "Ingesting" /\ pc = "listing" /\ time_left = 0)
              => pc' = "sleep" /\ collected' = collected
         /\ (phase = "Ingesting" /\ pc # "poll") => phase' = "Ingesting" ]_vars
  /\ <>(phase = "Finalizing" \/ ledger_error)

\* the deadline passed while a fetch was in flight: the batch has arrived,
\* after events of earlier polls were buffered
C26_Witness ==
  /\ phase = "Ingesting" /\ pc = "listing"
  /\ time_left = 0
  /\ listings # << >>
  /\ collected # << >>

\* C27: in a run no position is closed with reason stop_loss or
\* profit_target: the event handed to should_exit is a clone of the event
\* being decided, its market_cap_usd equals its entry_market_cap, so whatever
\* the lookup answers the first two rules do not match and an exit is an
\* lp_spike or a graduation; a close credits what one of their multipliers
\* gives.
C27_NoStopLossNoProfitTarget ==
  [][ ScanningPosition
        => /\ \A a \in ScanPairAnswers :
                LET current_ev == CurrentEv(Ev, positions[scan_idx], a)
                    x == ScanDecision(a)
                IN /\ current_ev.market_cap_usd = current_ev.entry_market_cap
                   /\ ~StopLossHit(current_ev, ConfigInUse)
                   /\ ~ProfitTargetHit(current_ev, ConfigInUse)
                   /\ x.should_exit => x.reason \in { "lp_spike", "graduation" }
           /\ ClosingStep
                => \E mult \in Multipliers("lp_spike") \cup Multipliers("graduation") :
                     LET pos == positions[scan_idx]
                         proceeds == (pos.qty.num * pos.entry_price * mult)
                                       \div (pos.qty.den * 10)
                     IN sol_balance' = sol_balance + proceeds \div SolUsdPrice ]_vars

\* the run is through its steps with a position that had a quantity closed
\* at the lp_spike multiplier and a position of a graduation event closed
C27_Witness ==
  /\ phase = "Finalizing"
  /\ sol_balance > StartingSolBalance \div 2  \* the closes are those of this step
  /\ \E i, j \in 1..Len(trades) :
       /\ trades[i].action = "SELL" /\ trades[i].entry_price > 0
       /\ trades[i].exit_price \in { trades[i].entry_price * m : m \in Multipliers("lp_spike") }
       /\ trades[j].action = "SELL" /\ trades[j].token_id # trades[i].token_id
       /\ \E k \in 1..Len(collected) :
            collected[k].id = trades[j].token_id /\ collected[k].graduation

\* C28: after the step of an event whose graduation flag is true no position
\* remains open.  While such an event is scanned every position passed so
\* far is marked for removal, and when the scan ends the open set is empty,
\* a position opened for that event in the same step included.
C28_GraduationClosesAll ==
  [][ (phase = "Deciding" /\ pc = "scan" /\ Ev.graduation)
        => /\ (~ScanEndStep /\ ~ledger_error')
                => closed_idxs' = Append(closed_idxs, scan_idx)
           /\ ScanEndStep
                => /\ closed_idxs = [ k \in 1..Len(positions) |-> k ]
                   /\ positions' = << >> ]_vars

\* the step of a graduation event is over: a position was bought for it on
\* top of positions held before, and nothing is open
C28_Witness ==
  /\ phase = "Finalizing"
  /\ sol_balance > StartingSolBalance \div 2  \* the closes are those of this step
  /\ positions = << >>
  /\ collected[Len(collected)].graduation
  /\ Len(trades) >= 3
  /\ trades[Len(trades)].token_id = collected[Len(collected)].id
  /\ trades[Len(trades)].action = "SELL"
  /\ trades[1].token_id # collected[Len(collected)].id

\* the pnl bound to the UPDATE of a close of pos at the multiplier mult
ClosePnl(pos, mult) == ProceedsUsd(pos, mult) - pos.usd_in

\* C29: for a closed position with a quantity > 0 the recorded pnl is
\* negative if and only if the reason is stop_loss (a multiplier below 1) and
\* strictly positive for profit_target, lp_spike and graduation (a multiplier
\* above 1); a closed position with quantity 0 credits no capital and
\* records pnl = -usd_invested whatever the reason.  Stated of the close
\* arithmetic for every open position, reason and draw, of the credit of
\* every closing step, and of every closed record of the ledger.
C29_PnlSign ==
  [][ /\ \A i \in 1..Len(positions) :
           \A reason \in { "profit_target", "lp_spike", "stop_loss", "graduation" } :
             \A mult \in Multipliers(reason) :
               LET pos == positions[i] IN
                 IF pos.qty.num > 0
                   THEN /\ (ClosePnl(pos, mult) < 0) <=> (reason = "stop_loss")
                        /\ (reason = "stop_loss") <=> (mult < 10)
                        /\ (reason # "stop_loss") => (ClosePnl(pos, mult) > 0 /\ mult > 10)
                   ELSE /\ ProceedsSol(pos, mult) = 0
                        /\ ClosePnl(pos, mult) = - pos.usd_in
      /\ ClosingStep
           => LET pos == positions[scan_idx] IN
                /\ pos.usd_in > 0
                /\ IF pos.qty.num > 0
                     THEN sol_balance' > sol_balance
                     ELSE sol_balance' = sol_balance
                /\ \A k \in 1..Len(trades) :
                     trades'[k] # trades[k]
                       => /\ trades'[k].action = "SELL"
                          /\ \E mult \in AllMultipliers :
                               trades'[k].pnl = ClosePnl(pos, mult)
      /\ \A k \in 1..Len(trades') :
           trades'[k].action = "SELL"
             => IF trades'[k].qty.num > 0
                  THEN trades'[k].pnl > 0
                  ELSE trades'[k].pnl = - trades'[k].usd_in ]_vars

\* the ledger holds a closed record with a quantity and a gain and a closed
\* record with quantity 0 and its whole stake lost
C29_Witness ==
  \E i, j \in 1..Len(trades) :
    /\ phase = "Finalizing"
    /\ sol_balance > StartingSolBalance \div 2  \* the closes are those of this step
    /\ trades[i].action = "SELL" /\ trades[i].qty.num > 0 /\ trades[i].pnl > 0
    /\ trades[j].action = "SELL" /\ trades[j].qty.num = 0
    /\ trades[j].pnl = - trades[j].usd_in /\ trades[j].usd_in > 0

\* C30: Finalizing does not close anything.  The step that writes the marker
\* leaves the open positions, the trades records and the available capital
\* as the last step left them, and the balance it reports is that capital
\* alone: nothing invested in a position still open is returned.
C30_FinalizeClosesNothing ==
  [][ phase = "Finalizing"
        => /\ positions' = positions
           /\ trades' = trades
           /\ sol_balance' = sol_balance
           /\ phase' = "Done"
                => /\ RemainingBalance' = sol_balance
                   /\ run_metadata' = run_metadata + 1 ]_vars

\* the run is done with a position left open, its BUY record open and its
\* stake missing from the balance
C30_Witness ==
  /\ phase = "Done"
  /\ Len(positions) > 0
  /\ OpenBuys(trades, positions[1].token_id) # {}
  /\ RemainingBalance <= StartingSolBalance - Len(positions) * MinTradeFloor
  /\ RemainingBalance < StartingSolBalance

====
